---------------------------- MODULE Spec2Model ----------------------------
(***************************************************************************)
(* A state-machine model of the two benchmark programs of the repository:  *)
(*   task.c   dense N x N integer matrix multiplication, timed             *)
(*   task2.c  trial-division prime counter over a fixed closed range       *)
(* Each statement of a main() is one action; a loop's increment and test   *)
(* belong to the action of the last statement of its body.  is_prime runs  *)
(* one loop iteration per action.                                          *)
(***************************************************************************)
EXTENDS Integers, Sequences, FiniteSets, TLC

VARIABLES
    prog,       \* which entry point runs: "task", "task2", or a bare call "is_prime"
    pc,         \* position in the running code
    exit,       \* "running", "0" (return 0) or "abnormal" (killed)
    ub,         \* undefined behaviour met so far: "none", "null_deref", "int_overflow"
    out,        \* lines written to standard output
    clk,        \* clock() readings so far: <<start>> then <<start, end>>
    Aptr, Bptr, Cptr,   \* task.c: the three row-pointer arrays: "unset", "ok", "null"
    Arow, Brow, Crow,   \* task.c: A[i], B[i], C[i] row pointers
    A, B, C,            \* task.c: matrix cells written so far, <<row, col>> -> int
    i, j, k,            \* loop cursors of main (task.c: i, j, k; task2.c: i)
    randState,          \* hidden global state of rand()
    mulSteps,           \* history: executions of line 30 of task.c
    n, d, ret,          \* is_prime: argument, loop variable i, returned value
    count,              \* task2.c: count
    tested,             \* history: arguments main passed to is_prime, in order
    rets                \* history: values is_prime returned to main, in order

vars == <<prog, pc, exit, ub, out, clk, Aptr, Bptr, Cptr, Arow, Brow, Crow,
          A, B, C, i, j, k, randState, mulSteps, n, d, ret, count, tested, rets>>

matVars == <<Aptr, Bptr, Cptr, Arow, Brow, Crow, A, B, C, j, k, randState, mulSteps>>
primeVars == <<n, d, ret, count, tested, rets>>

-----------------------------------------------------------------------------
(* Bounds of the model.  The source fixes N = 500 and the range            *)
(* [90000000000, 90000100000] with 64-bit long long; the model runs the    *)
(* same code on a small side length, a short range and a narrower word.    *)

\* side length of the matrices (task.c:7 has 500)
N == 2
\* rand(): modulus, multiplier and increment of the generator family
RandMod == 101
RandMul == 7
RandInc == 3
\* clock() readings are 0 .. MaxClock
MaxClock == 2
\* first and last candidate of the range (task2.c:15-16, scaled down)
start == 9000
end == 9012
\* bits of the model's long long
LLBits == 30
\* arguments of a bare is_prime call: -NegSpan .. MaxArg
NegSpan == 3
MaxArg == 60

\* the side length the source fixes
SourceN == 500
\* largest int of the platform (32-bit int)
INT_MAX == 2147483647
\* largest long long of the model
LLONG_MAX == 2 ^ (LLBits - 1) - 1

Idx == 0 .. N - 1
ClockVals == 0 .. MaxClock

-----------------------------------------------------------------------------
(* task.c                                                                  *)

\* malloc returns a block or NULL
MallocResults == {"ok", "null"}

\* rand(): the next state of the generator, which is also the value returned
RandNext(s) == (s * RandMul + RandInc) % RandMod

\* line 20: the modulus of rand() % 10
Modulus == 10
MaxEntry == Modulus - 1

\* rand() % 10
EntryMod11(r) == r % (Modulus + 1)
Entry(r) == r % Modulus

\* C[i][j] = 0 (without the store the cell keeps what malloc left in it)
ZeroInitGarbage == MaxEntry
ZeroInit == 0

\* A[i][k] * B[k][j]
MulTermTransposed(r, c, x) == A[<<r, x>>] * B[<<c, x>>]
MulTerm(r, c, x) == A[<<r, x>>] * B[<<x, c>>]

\* C[i][j] += term
Acc(acc, term) == acc + term

AllocFailed ==
    \/ "null" \in {Aptr, Bptr, Cptr}
    \/ \E r \in Idx : "null" \in {Arow[r], Brow[r], Crow[r]}

\* A store through a NULL pointer: undefined behaviour.  The process is
\* killed, or it keeps running with nothing known about what it does next.
NullDeref ==
    /\ ub' = "null_deref"
    /\ \E o \in {"crashed", "wild"} :
          /\ pc' = o
          /\ exit' = IF o = "crashed" THEN "abnormal" ELSE exit

InitTask ==
    /\ prog = "task"
    /\ pc = "malloc_A"
    /\ exit = "running"
    /\ ub = "none"
    /\ out = <<>>
    /\ clk = <<>>
    /\ Aptr = "unset" /\ Bptr = "unset" /\ Cptr = "unset"
    /\ Arow = [r \in Idx |-> "unset"]
    /\ Brow = [r \in Idx |-> "unset"]
    /\ Crow = [r \in Idx |-> "unset"]
    /\ A = <<>> /\ B = <<>> /\ C = <<>>
    /\ i = 0 /\ j = 0 /\ k = 0
    /\ randState \in 0 .. RandMod - 1
    /\ mulSteps = 0
    /\ n = 0 /\ d = 0 /\ ret = 0 /\ count = 0
    /\ tested = <<>> /\ rets = <<>>

\* line 11
MallocA ==
    /\ prog = "task" /\ pc = "malloc_A"
    /\ \E p \in MallocResults : Aptr' = p
    /\ pc' = "malloc_B"
    /\ UNCHANGED <<prog, exit, ub, out, clk, Bptr, Cptr, Arow, Brow, Crow,
                   A, B, C, i, j, k, randState, mulSteps, primeVars>>

\* line 12
MallocB ==
    /\ prog = "task" /\ pc = "malloc_B"
    /\ \E p \in MallocResults : Bptr' = p
    /\ pc' = "malloc_C"
    /\ UNCHANGED <<prog, exit, ub, out, clk, Aptr, Cptr, Arow, Brow, Crow,
                   A, B, C, i, j, k, randState, mulSteps, primeVars>>

\* line 13, and the init and first test of the loop of line 15
MallocC ==
    /\ prog = "task" /\ pc = "malloc_C"
    /\ \E p \in MallocResults : Cptr' = p
    /\ i' = 0
    /\ pc' = IF 0 < N THEN "row_A" ELSE "clock_start"
    /\ UNCHANGED <<prog, exit, ub, out, clk, Aptr, Bptr, Arow, Brow, Crow,
                   A, B, C, j, k, randState, mulSteps, primeVars>>

\* line 16: A[i] = malloc(...)
RowA ==
    /\ prog = "task" /\ pc = "row_A"
    /\ \E p \in MallocResults :
          IF Aptr = "null"
          THEN NullDeref /\ UNCHANGED Arow
          ELSE Arow' = [Arow EXCEPT ![i] = p] /\ pc' = "row_B"
                  /\ UNCHANGED <<exit, ub>>
    /\ UNCHANGED <<prog, out, clk, Aptr, Bptr, Cptr, Brow, Crow,
                   A, B, C, i, j, k, randState, mulSteps, primeVars>>

\* line 17: B[i] = malloc(...)
RowB ==
    /\ prog = "task" /\ pc = "row_B"
    /\ \E p \in MallocResults :
          IF Bptr = "null"
          THEN NullDeref /\ UNCHANGED Brow
          ELSE Brow' = [Brow EXCEPT ![i] = p] /\ pc' = "row_C"
                  /\ UNCHANGED <<exit, ub>>
    /\ UNCHANGED <<prog, out, clk, Aptr, Bptr, Cptr, Arow, Crow,
                   A, B, C, i, j, k, randState, mulSteps, primeVars>>

\* line 18: C[i] = malloc(...), and the init and first test of the loop of line 19
RowC ==
    /\ prog = "task" /\ pc = "row_C"
    /\ \E p \in MallocResults :
          IF Cptr = "null"
          THEN NullDeref /\ UNCHANGED <<Crow, i, j>>
          ELSE /\ Crow' = [Crow EXCEPT ![i] = p]
               /\ j' = 0
               /\ IF 0 < N
                  THEN pc' = "fill_A" /\ i' = i
                  ELSE /\ i' = i + 1
                       /\ pc' = IF i + 1 < N THEN "row_A" ELSE "clock_start"
               /\ UNCHANGED <<exit, ub>>
    /\ UNCHANGED <<prog, out, clk, Aptr, Bptr, Cptr, Arow, Brow,
                   A, B, C, k, randState, mulSteps, primeVars>>

\* line 20: A[i][j] = rand() % 10
FillA ==
    /\ prog = "task" /\ pc = "fill_A"
    /\ randState' = RandNext(randState)
    /\ IF Arow[i] = "null"
       THEN NullDeref /\ UNCHANGED A
       ELSE /\ A' = (<<i, j>> :> Entry(randState')) @@ A
            /\ pc' = "fill_B"
            /\ UNCHANGED <<exit, ub>>
    /\ UNCHANGED <<prog, out, clk, Aptr, Bptr, Cptr, Arow, Brow, Crow,
                   B, C, i, j, k, mulSteps, primeVars>>

\* line 21: B[i][j] = rand() % 10
FillB ==
    /\ prog = "task" /\ pc = "fill_B"
    /\ randState' = RandNext(randState)
    /\ IF Brow[i] = "null"
       THEN NullDeref /\ UNCHANGED B
       ELSE /\ B' = (<<i, j>> :> Entry(randState')) @@ B
            /\ pc' = "fill_C"
            /\ UNCHANGED <<exit, ub>>
    /\ UNCHANGED <<prog, out, clk, Aptr, Bptr, Cptr, Arow, Brow, Crow,
                   A, C, i, j, k, mulSteps, primeVars>>

\* line 22: C[i][j] = 0, then ++j and the test of line 19; when that loop
\* ends, ++i and the test of line 15
FillC ==
    /\ prog = "task" /\ pc = "fill_C"
    /\ IF Crow[i] = "null"
       THEN NullDeref /\ UNCHANGED <<C, i, j>>
       ELSE /\ C' = (<<i, j>> :> ZeroInit) @@ C
            /\ j' = j + 1
            /\ IF j + 1 < N
               THEN pc' = "fill_A" /\ i' = i
               ELSE /\ i' = i + 1
                    /\ pc' = IF i + 1 < N THEN "row_A" ELSE "clock_start"
            /\ UNCHANGED <<exit, ub>>
    /\ UNCHANGED <<prog, out, clk, Aptr, Bptr, Cptr, Arow, Brow, Crow,
                   A, B, k, randState, mulSteps, primeVars>>

\* line 26: start = clock(), and the inits and first tests of lines 27-29
ClockStart ==
    /\ prog = "task" /\ pc = "clock_start"
    /\ \E c \in ClockVals : clk' = <<c>>
    /\ i' = 0
    /\ j' = IF 0 < N THEN 0 ELSE j
    /\ k' = IF 0 < N THEN 0 ELSE k
    /\ pc' = IF 0 < N THEN "mul" ELSE "clock_end"
    /\ UNCHANGED <<prog, exit, ub, out, Aptr, Bptr, Cptr, Arow, Brow, Crow,
                   A, B, C, randState, mulSteps, primeVars>>

\* line 30: C[i][j] += A[i][k] * B[k][j], then ++k, ++j, ++i and the tests
\* of lines 29, 28, 27 as far as the loops end
MulStep ==
    /\ prog = "task" /\ pc = "mul"
    /\ mulSteps' = mulSteps + 1
    /\ LET v == Acc(C[<<i, j>>], MulTerm(i, j, k)) IN
       IF v > INT_MAX
       THEN /\ ub' = "int_overflow"
            /\ pc' = "wild"
            /\ UNCHANGED <<C, i, j, k>>
       ELSE /\ C' = [C EXCEPT ![<<i, j>>] = v]
            /\ ub' = ub
            /\ IF k + 1 < N
               THEN k' = k + 1 /\ j' = j /\ i' = i /\ pc' = "mul"
               ELSE IF j + 1 < N
                    THEN k' = 0 /\ j' = j + 1 /\ i' = i /\ pc' = "mul"
                    ELSE IF i + 1 < N
                         THEN k' = 0 /\ j' = 0 /\ i' = i + 1 /\ pc' = "mul"
                         ELSE k' = N /\ j' = N /\ i' = N /\ pc' = "clock_end"
    /\ UNCHANGED <<prog, exit, out, clk, Aptr, Bptr, Cptr, Arow, Brow, Crow,
                   A, B, randState, primeVars>>

\* line 31: end = clock()
ClockEnd ==
    /\ prog = "task" /\ pc = "clock_end"
    /\ \E c \in ClockVals : clk' = Append(clk, c)
    /\ pc' = "print"
    /\ UNCHANGED <<prog, exit, ub, out, i, matVars, primeVars>>

\* lines 33-34: the elapsed ticks, printed
ElapsedLine(t) == [text |-> "Elapsed time", count |-> 0, ticks |-> t]

PrintElapsed ==
    /\ prog = "task" /\ pc = "print"
    /\ out' = Append(out, ElapsedLine(clk[2] - clk[1]))
    /\ pc' = "return"
    /\ UNCHANGED <<prog, exit, ub, clk, i, matVars, primeVars>>

\* line 35: return 0
ReturnTask ==
    /\ prog = "task" /\ pc = "return"
    /\ exit' = "0"
    /\ pc' = "done"
    /\ UNCHANGED <<prog, ub, out, clk, i, matVars, primeVars>>

\* After undefined behaviour that did not kill the process: it may still
\* reach the printf and return 0 ...
WildPrint ==
    /\ prog = "task" /\ pc = "wild"
    /\ \E t \in ClockVals : out' = Append(out, ElapsedLine(t))
    /\ exit' = "0"
    /\ pc' = "done"
    /\ UNCHANGED <<prog, ub, clk, i, matVars, primeVars>>

\* ... or be killed later
WildCrash ==
    /\ prog = "task" /\ pc = "wild"
    /\ exit' = "abnormal"
    /\ pc' = "crashed"
    /\ UNCHANGED <<prog, ub, out, clk, i, matVars, primeVars>>

NextTask ==
    \/ MallocA \/ MallocB \/ MallocC
    \/ RowA \/ RowB \/ RowC
    \/ FillA \/ FillB \/ FillC
    \/ ClockStart \/ MulStep \/ ClockEnd
    \/ PrintElapsed \/ ReturnTask
    \/ WildPrint \/ WildCrash

-----------------------------------------------------------------------------
(* task2.c                                                                 *)

\* the product i * i of line 8
Square(x) == x * x

\* line 8: i * i <= n
LoopCondNoSquare(x, m) == x <= m
LoopCondStrict(x, m) == Square(x) < m
LoopCond(x, m) == Square(x) <= m

\* line 8: i++
NextDivStuck(x) == x
NextDiv(x) == x + 1

\* line 21: i <= end
RangeCondExclusive(c) == c < end
RangeCond(c) == c <= end

\* lines 22-24: if (is_prime(i)) count++
NextCountAlways(c, r) == c + 1
NextCount(c, r) == IF r # 0 THEN c + 1 ELSE c

\* line 17: int count = 0
CountInitGarbage == {0, 1}
CountInit == {0}

\* line 30: the count and the elapsed ticks, printed
FoundLine(c, t) == [text |-> "Found", count |-> c, ticks |-> t]

InitTask2 ==
    /\ prog = "task2"
    /\ pc = "clock_begin"
    /\ exit = "running"
    /\ ub = "none"
    /\ out = <<>>
    /\ clk = <<>>
    /\ Aptr = "unset" /\ Bptr = "unset" /\ Cptr = "unset"
    /\ Arow = [r \in Idx |-> "unset"]
    /\ Brow = [r \in Idx |-> "unset"]
    /\ Crow = [r \in Idx |-> "unset"]
    /\ A = <<>> /\ B = <<>> /\ C = <<>>
    /\ i = 0 /\ j = 0 /\ k = 0
    /\ randState = 0
    /\ mulSteps = 0
    /\ n = 0 /\ d = 0 /\ ret = 0
    /\ count \in CountInit
    /\ tested = <<>> /\ rets = <<>>

\* a bare call is_prime(n)
InitIsPrime ==
    /\ prog = "is_prime"
    /\ pc = "ip_entry"
    /\ exit = "running"
    /\ ub = "none"
    /\ out = <<>>
    /\ clk = <<>>
    /\ Aptr = "unset" /\ Bptr = "unset" /\ Cptr = "unset"
    /\ Arow = [r \in Idx |-> "unset"]
    /\ Brow = [r \in Idx |-> "unset"]
    /\ Crow = [r \in Idx |-> "unset"]
    /\ A = <<>> /\ B = <<>> /\ C = <<>>
    /\ i = 0 /\ j = 0 /\ k = 0
    /\ randState = 0
    /\ mulSteps = 0
    /\ n \in (0 - NegSpan) .. MaxArg
    /\ d = 0 /\ ret = 0 /\ count = 0
    /\ tested = <<>> /\ rets = <<>>

\* line 19: begin = clock(), and the init of the loop of line 21
ClockBegin ==
    /\ prog = "task2" /\ pc = "clock_begin"
    /\ \E c \in ClockVals : clk' = <<c>>
    /\ i' = start
    /\ pc' = "range_loop"
    /\ UNCHANGED <<prog, exit, ub, out, matVars, primeVars>>

\* line 21: the test i <= end; line 22: the call is_prime(i)
RangeLoop ==
    /\ prog = "task2" /\ pc = "range_loop"
    /\ IF RangeCond(i)
       THEN /\ n' = i
            /\ tested' = Append(tested, i)
            /\ pc' = "ip_entry"
       ELSE /\ pc' = "clock_finish"
            /\ UNCHANGED <<n, tested>>
    /\ UNCHANGED <<prog, exit, ub, out, clk, i, matVars, d, ret, count, rets>>

\* line 7: if (n < 2) return 0; line 8: i = 2
IpEntry ==
    /\ pc = "ip_entry"
    /\ IF n < 2
       THEN ret' = 0 /\ pc' = "ip_ret" /\ d' = d
       ELSE d' = 2 /\ pc' = "ip_loop" /\ ret' = ret
    /\ UNCHANGED <<prog, exit, ub, out, clk, i, matVars, n, count, tested, rets>>

\* lines 8-11: one evaluation of i * i <= n, then the body and i++, or return 1
IpLoop ==
    /\ pc = "ip_loop"
    /\ IF Square(d) > LLONG_MAX
       THEN /\ ub' = "int_overflow"
            /\ pc' = "wild"
            /\ UNCHANGED <<d, ret>>
       ELSE /\ ub' = ub
            /\ IF LoopCond(d, n)
               THEN IF n % d = 0
                    THEN ret' = 0 /\ pc' = "ip_ret" /\ d' = d
                    ELSE d' = NextDiv(d) /\ pc' = "ip_loop" /\ ret' = ret
               ELSE ret' = 1 /\ pc' = "ip_ret" /\ d' = d
    /\ UNCHANGED <<prog, exit, out, clk, i, matVars, n, count, tested, rets>>

\* lines 22-24: count++ when is_prime returned nonzero; line 21: i++
IpReturn ==
    /\ prog = "task2" /\ pc = "ip_ret"
    /\ count' = NextCount(count, ret)
    /\ rets' = Append(rets, ret)
    /\ i' = i + 1
    /\ pc' = "range_loop"
    /\ UNCHANGED <<prog, exit, ub, out, clk, matVars, n, d, ret, tested>>

\* line 27: finish = clock()
ClockFinish ==
    /\ prog = "task2" /\ pc = "clock_finish"
    /\ \E c \in ClockVals : clk' = Append(clk, c)
    /\ pc' = "print"
    /\ UNCHANGED <<prog, exit, ub, out, i, matVars, primeVars>>

\* lines 28-30
PrintFound ==
    /\ prog = "task2" /\ pc = "print"
    /\ out' = Append(out, FoundLine(count, clk[2] - clk[1]))
    /\ pc' = "return"
    /\ UNCHANGED <<prog, exit, ub, clk, i, matVars, primeVars>>

\* line 31: return 0
ReturnTask2 ==
    /\ prog = "task2" /\ pc = "return"
    /\ exit' = "0"
    /\ pc' = "done"
    /\ UNCHANGED <<prog, ub, out, clk, i, matVars, primeVars>>

NextIsPrime == IpEntry \/ IpLoop

NextTask2 ==
    \/ ClockBegin \/ RangeLoop \/ IpReturn
    \/ ClockFinish \/ PrintFound \/ ReturnTask2

-----------------------------------------------------------------------------
(* Specifications                                                          *)

Init == InitTask \/ InitTask2

Next == NextTask \/ NextTask2 \/ NextIsPrime

\* both programs, every run
Spec == Init /\ [][Next]_vars

\* a process that can take a step takes one
FairSpec == Spec /\ WF_vars(Next)

\* is_prime alone, on every argument of a bounded set
SpecIsPrime == InitIsPrime /\ [][NextIsPrime]_vars

-----------------------------------------------------------------------------
(* Properties of task.c                                                    *)

RECURSIVE Dot(_, _, _)
\* sum over x in [0, m) of A[r][x] * B[x][c]
Dot(r, c, m) == IF m = 0 THEN 0 ELSE Dot(r, c, m - 1) + A[<<r, m - 1>>] * B[<<m - 1, c>>]

Cells == Idx \X Idx
AfterMul == {"clock_end", "print", "return", "done"}

\* C1: once the i/j/k multiply loop has completed, every entry of C is the
\* dot product of the row of A and the column of B:
\* C[i][j] = sum over k in [0, N) of A[i][k] * B[k][j].
C1_MatrixProduct ==
    (prog = "task" /\ ub = "none" /\ pc \in AfterMul) =>
        \A c \in Cells : C[c] = Dot(c[1], c[2], N)

C1_Witness ==
    /\ prog = "task" /\ ub = "none" /\ pc = "done"
    /\ \E c \in Cells : C[c] > MaxEntry * MaxEntry
    /\ \E c \in Cells : A[c] # B[c]

\* C2: after a failed allocation the program never stores through the NULL
\* pointer, never is in the fill or multiply loops, and never prints.
C2_FailStop ==
    AllocFailed =>
        /\ ub = "none"
        /\ pc \notin {"fill_A", "fill_B", "fill_C", "mul"}
        /\ out = <<>>

\* C7 (state part): when the start timestamp is about to be recorded all
\* allocation and input generation are done: every entry of A and B is in
\* [0, 9], every entry of C is 0, and no multiply step has run.
C7_AtStart ==
    (prog = "task" /\ ub = "none" /\ pc = "clock_start") =>
        /\ ~AllocFailed
        /\ {Aptr, Bptr, Cptr} = {"ok"}
        /\ \A r \in Idx : {Arow[r], Brow[r], Crow[r]} = {"ok"}
        /\ DOMAIN A = Cells /\ DOMAIN B = Cells /\ DOMAIN C = Cells
        /\ \A c \in Cells : A[c] \in 0 .. 9 /\ B[c] \in 0 .. 9 /\ C[c] = 0
        /\ mulSteps = 0
        /\ clk = <<>>

\* C7 (step part): between the start and the end timestamp every step is a
\* multiply step or the reading of the end timestamp: no allocation, no
\* rand() call, no store to A or B, no output.
C7_InWindow ==
    (prog = "task" /\ ub = "none" /\ Len(clk) = 1) =>
        /\ UNCHANGED <<Aptr, Bptr, Cptr, Arow, Brow, Crow, A, B, randState, out>>
        /\ \/ mulSteps' = mulSteps + 1 /\ clk' = clk
           \/ mulSteps' = mulSteps /\ Len(clk') = 2 /\ C' = C

\* C7: at the moment the start timestamp is recorded allocation and input
\* generation are finished (A, B in [0, 9], C zero, no multiply step yet), and
\* between the start and the end timestamp only multiply steps occur.
C7_TimedWindow == [](C7_AtStart) /\ [][C7_InWindow]_vars

C7_Witness ==
    /\ prog = "task" /\ ub = "none" /\ Len(clk) = 1
    /\ mulSteps = N * N * N - 1
    /\ \E c \in Cells : A[c] = 9

\* C9: every value an entry of C ever holds during the multiply loop, and
\* every product A[i][k] * B[k][j], is in [0, N * 9 * 9] (40500 for the
\* N = 500 of the source), which a signed 32-bit int holds.
C9_NoIntOverflow ==
    prog = "task" =>
        /\ ub # "int_overflow"
        /\ N * MaxEntry * MaxEntry <= INT_MAX
        /\ SourceN * MaxEntry * MaxEntry = 40500 /\ 40500 <= INT_MAX
        /\ ub = "none" =>
              /\ \A c \in DOMAIN C : C[c] \in 0 .. N * MaxEntry * MaxEntry
              /\ pc = "mul" =>
                    /\ MulTerm(i, j, k) \in 0 .. MaxEntry * MaxEntry
                    /\ Acc(C[<<i, j>>], MulTerm(i, j, k)) \in 0 .. N * MaxEntry * MaxEntry

C9_Witness ==
    /\ prog = "task" /\ ub = "none" /\ pc = "mul"
    /\ MulTerm(i, j, k) = MaxEntry * MaxEntry
    /\ C[<<i, j>>] > 0

-----------------------------------------------------------------------------
(* Properties of task2.c                                                   *)

\* primality by definition: no divisor in 2 .. m - 1
IsPrimeDef(m) == m >= 2 /\ \A x \in 2 .. m - 1 : m % x # 0

RECURSIVE IpScan(_, _)
\* the loop of is_prime from divisor x on, as one value
IpScan(m, x) ==
    IF LoopCond(x, m)
    THEN IF m % x = 0 THEN 0 ELSE IpScan(m, NextDiv(x))
    ELSE 1

\* the value is_prime(m) returns
is_prime(m) == IF m < 2 THEN 0 ELSE IpScan(m, 2)

RangeSize == end - start + 1
AfterRange == {"clock_finish", "print", "return", "done"}
InIsPrime == {"ip_entry", "ip_loop", "ip_ret"}

\* C3: is_prime returns 0 for every n < 2, and for n >= 2 it returns 1
\* exactly when no d with 2 <= d <= n - 1 divides n.
C3_IsPrimeCorrect ==
    pc = "ip_ret" => ret = (IF IsPrimeDef(n) THEN 1 ELSE 0)

C3_Witness ==
    /\ prog = "is_prime" /\ pc = "ip_ret"
    /\ n = 49 /\ d = 7 /\ ret = 0

\* C4: the range loop passes to is_prime every integer of [start, end]
\* exactly once, in increasing order, start first and end last, and nothing
\* outside the range.
C4_RangeOrder ==
    prog = "task2" =>
        /\ \A x \in 1 .. Len(tested) : tested[x] = start + x - 1
        /\ Len(tested) <= RangeSize
        /\ pc \in InIsPrime => n = i /\ tested[Len(tested)] = i
        /\ pc = "range_loop" => i = start + Len(tested)
        /\ pc \in AfterRange => Len(tested) = RangeSize

C4_Witness ==
    /\ prog = "task2" /\ pc = "done"
    /\ tested[1] = start /\ tested[Len(tested)] = end

Ones(s) == Cardinality({x \in 1 .. Len(s) : s[x] = 1})

\* C5 (state part): count is the number of processed candidates for which
\* is_prime returned 1, and the printed count is the number of primes of
\* [start, end].
C5_CountIsOnes ==
    prog = "task2" =>
        /\ count = Ones(rets)
        /\ Len(out) = 1 =>
              out[1].count = Cardinality({m \in start .. end : IsPrimeDef(m)})

\* C5 (step part): count never decreases; it grows by exactly 1 when is_prime
\* returned 1 for the candidate just processed and stays otherwise.
C5_CountStep ==
    /\ count' >= count
    /\ count' # count =>
          /\ count' = count + 1
          /\ pc = "ip_ret" /\ ret = 1
    /\ (prog = "task2" /\ pc = "ip_ret" /\ ret = 1) => count' = count + 1

C5_CountStart == prog = "task2" /\ pc = "clock_begin" => count = 0

\* C5: count starts at 0, never decreases, equals at every point the number
\* of processed candidates for which is_prime returned 1, and the count
\* printed is the number of primes in [start, end].
C5_Count == [](C5_CountStart) /\ [](C5_CountIsOnes) /\ [][C5_CountStep]_vars

C5_Witness ==
    /\ prog = "task2" /\ pc = "done"
    /\ out[1].count > 0 /\ out[1].count < Len(rets)

\* C6: the count is a function of the range and of the position in it
\* alone, whatever the clock readings: every run prints the same count.
C6_CountDeterministic ==
    prog = "task2" =>
        /\ count = Cardinality({m \in start .. start + Len(rets) - 1 : is_prime(m) = 1})
        /\ Len(out) = 1 =>
              out[1].count = Cardinality({m \in start .. end : is_prime(m) = 1})

C6_Witness ==
    /\ prog = "task2" /\ pc = "done"
    /\ clk[1] > 0 /\ out[1].ticks > 0 /\ out[1].count > 0

\* C10: every product i * i that is_prime evaluates fits the long long and
\* the loop stops at the first i whose square exceeds n; the cursor of main
\* never exceeds end + 1, and count never exceeds the range size, which fits
\* an int.
C10_NoLongOverflow ==
    prog = "task2" =>
        /\ ub = "none"
        /\ pc = "ip_loop" =>
              /\ d >= 2
              /\ Square(d) <= LLONG_MAX
              /\ Square(d - 1) <= n
        /\ clk # <<>> => i >= start /\ i <= end + 1
        /\ end + 1 <= LLONG_MAX
        /\ count <= RangeSize
        /\ RangeSize <= INT_MAX

C10_Witness ==
    /\ prog = "task2" /\ pc = "ip_loop"
    /\ Square(d) > n /\ Square(d - 1) <= n
    /\ count > 0

-----------------------------------------------------------------------------
(* Properties of both programs                                             *)

LoopFinished ==
    IF prog = "task" THEN mulSteps = N * N * N ELSE Len(rets) = RangeSize

C8_Safe ==
    ~AllocFailed =>
        /\ Len(out) <= 1
        /\ ub = "none"
        /\ pc # "crashed" /\ exit # "abnormal"
        /\ out # <<>> =>
              /\ LoopFinished /\ Len(clk) = 2
              /\ out[1].text = (IF prog = "task" THEN "Elapsed time" ELSE "Found")
        /\ exit = "0" <=> pc = "done"
        /\ pc = "done" => Len(out) = 1

\* C8: when no allocation fails each program runs to completion: it prints
\* exactly one line, after its compute loop has finished and the end
\* timestamp has been recorded, and then exits with code 0.
C8_RunsToCompletion == [](C8_Safe) /\ <>(AllocFailed \/ pc = "done")

C8_Witness ==
    /\ prog = "task" /\ ~AllocFailed /\ pc = "done"
    /\ exit = "0" /\ Len(out) = 1 /\ mulSteps = N * N * N

=============================================================================
